---- MODULE Spec2Model ----
(***************************************************************************)
(* Snowflake file format resource: the SQL statement builder               *)
(* (pkg/snowflake/file_format.go), the DESCRIBE result parser and the      *)
(* resource lifecycle adapter (pkg/resources/file_format.go).              *)
(*                                                                         *)
(* A text is a sequence of tokens.  A token is either one significant      *)
(* character (a quote, a backslash, a bracket, a comma, the '|' delimiter, *)
(* a dot, a blank) or a run of ordinary characters, so that the code's     *)
(* character-level functions can be computed token by token.               *)
(***************************************************************************)
EXTENDS Integers, Sequences, FiniteSets, TLC

VARIABLES
    fb,        \* builder under test: the FileFormatBuilder struct
    sql,       \* builder under test: the last Create() output
    given,     \* builder under test: per property, the value last given through With
    pc,        \* lifecycle: "idle", or the handler that has just returned
    id,        \* lifecycle: schema.ResourceData id (d.Id())
    st,        \* lifecycle: schema.ResourceData attributes written by d.Set
    cfg,       \* lifecycle: configuration handed to the running handler
    log,       \* lifecycle: statements the handler sent to the database handle
    err,       \* lifecycle: error returned by the handler, NoError for nil
    writes,    \* lifecycle: attribute names the handler wrote with d.Set, in order
    partial,   \* lifecycle: keys the handler marked with d.SetPartial
    prior,     \* lifecycle: the resource data the handler was called with
    dbh,       \* lifecycle: the database handle's behaviour during the handler
    fn,        \* function under test: the function called last, "none" before any call
    arg,       \* function under test: the arguments of the call
    res        \* function under test: what the call returned

vars == <<fb, sql, given, pc, id, st, cfg, log, err, writes, partial, prior, dbh, fn, arg, res>>
builderVars == <<fb, sql, given>>
lifecycleVars == <<pc, id, st, cfg, log, err, writes, partial, prior, dbh>>
callVars == <<fn, arg, res>>

\* ---------------------------------------------------------------- bounds

\* Most properties a builder under test is given through With calls.
MaxWith == 2
\* Most optional properties a configuration provides to CreateFileFormat.
MaxSet == 1
\* Most properties an update plan changes.
MaxChanged == 2
\* Most elements of a null_if list given to a function under test.
MaxList == 2
\* Most rows of unmodelled properties inserted into a DESCRIBE result.
MaxUnknown == 2

\* ------------------------------------------------------------ properties

\* The optional properties, in the order of Create()'s clauses; the same order
\* as UpdateFileFormat's HasChange blocks from comment on.
PropOrder ==
    << "type", "comment", "compression", "binary_as_text", "trim_space", "null_if",
       "record_delimiter", "field_delimiter", "file_extension", "skip_header",
       "skip_blank_lines", "date_format", "time_format", "timestamp_format",
       "binary_format", "escape", "escape_unenclosed_field",
       "field_optionally_enclosed_by", "error_on_column_count_mismatch",
       "replace_invalid_characters", "validate_utf8", "empty_field_as_null",
       "skip_byte_order_mark", "encoding" >>

Props == {PropOrder[i] : i \in 1..Len(PropOrder)}

BoolProps ==
    { "binary_as_text", "trim_space", "skip_blank_lines", "error_on_column_count_mismatch",
      "replace_invalid_characters", "validate_utf8", "empty_field_as_null",
      "skip_byte_order_mark" }
IntProps == {"skip_header"}
ListProps == {"null_if"}
StringProps == Props \ (BoolProps \cup IntProps \cup ListProps)

\* Builder fields that come with a set<Property> flag.
FlagProps == BoolProps \cup IntProps
\* String fields Create() and Change<Property>() embed without EscapeString.
RawProps == {"type", "compression", "binary_format"}
\* String fields Create() and Change<Property>() embed without double quotes.
BareProps == {"binary_format"}

\* The SQL keyword of a property.
Keyword(p) ==
    CASE p = "type" -> "TYPE"
      [] p = "comment" -> "COMMENT"
      [] p = "compression" -> "COMPRESSION"
      [] p = "binary_as_text" -> "BINARY_AS_TEXT"
      [] p = "trim_space" -> "TRIM_SPACE"
      [] p = "null_if" -> "NULL_IF"
      [] p = "record_delimiter" -> "RECORD_DELIMITER"
      [] p = "field_delimiter" -> "FIELD_DELIMITER"
      [] p = "file_extension" -> "FILE_EXTENSION"
      [] p = "skip_header" -> "SKIP_HEADER"
      [] p = "skip_blank_lines" -> "SKIP_BLANK_LINES"
      [] p = "date_format" -> "DATE_FORMAT"
      [] p = "time_format" -> "TIME_FORMAT"
      [] p = "timestamp_format" -> "TIMESTAMP_FORMAT"
      [] p = "binary_format" -> "BINARY_FORMAT"
      [] p = "escape" -> "ESCAPE"
      [] p = "escape_unenclosed_field" -> "ESCAPE_UNENCLOSED_FIELD"
      [] p = "field_optionally_enclosed_by" -> "FIELD_OPTIONALLY_ENCLOSED_BY"
      [] p = "error_on_column_count_mismatch" -> "ERROR_ON_COLUMN_COUNT_MISMATCH"
      [] p = "replace_invalid_characters" -> "REPLACE_INVALID_CHARACTERS"
      [] p = "validate_utf8" -> "VALIDATE_UTF8"
      [] p = "empty_field_as_null" -> "EMPTY_FIELD_AS_NULL"
      [] p = "skip_byte_order_mark" -> "SKIP_BYTE_ORDER_MARK"
      [] p = "encoding" -> "ENCODING"

\* Go's zero value of a property's type.
ZeroValue(p) ==
    IF p \in BoolProps THEN FALSE
    ELSE IF p \in IntProps THEN 0
    ELSE << >>

\* -------------------------------------------------------------- texts

Flatten(seqs) ==
    LET F[i \in 0..Len(seqs)] == IF i = 0 THEN << >> ELSE F[i - 1] \o seqs[i]
    IN F[Len(seqs)]

\* strings.Join(elems, sep)
Join(elems, sep) ==
    LET F[i \in 0..Len(elems)] ==
            IF i = 0 THEN << >>
            ELSE IF i = 1 THEN elems[1]
            ELSE F[i - 1] \o sep \o elems[i]
    IN F[Len(elems)]

\* EscapeString: a backslash becomes two backslashes, a single quote is
\* preceded by a backslash.
EscapeString(in) ==
    Flatten([i \in 1..Len(in) |->
        IF in[i] = "\\" THEN << "\\", "\\" >>
        ELSE IF in[i] = "'" THEN << "\\", "'" >>
        ELSE << in[i] >>])

\* fmt's %v of a bool
FmtBool(b) == IF b THEN << "true" >> ELSE << "false" >>

\* fmt's %v of a non-negative int: its decimal digits
FmtInt(n) ==
    LET D(k) == << CASE k = 0 -> "0" [] k = 1 -> "1" [] k = 2 -> "2" [] k = 3 -> "3"
                     [] k = 4 -> "4" [] k = 5 -> "5" [] k = 6 -> "6" [] k = 7 -> "7"
                     [] k = 8 -> "8" [] k = 9 -> "9" >>
        F[k \in 0..n] == IF k < 10 THEN D(k) ELSE F[k \div 10] \o D(k % 10)
    IN F[n]

\* ------------------------------------------------------ statement builder

\* The values the model gives to a property.
StringValues == { << >>, << "x" >> }
CommentValues == { << >>, << "x" >>, << "a", "\\", "'", "b" >> }
TypeValues == { << "parquet" >>, << "csv" >> }
ListValues == { << >>, << << "\\", "N" >>, << "NULL" >>, << >> >> }
IntValues == { 0, 1 }

Values(p) ==
    IF p \in BoolProps THEN BOOLEAN
    ELSE IF p \in IntProps THEN IntValues
    ELSE IF p \in ListProps THEN ListValues
    ELSE IF p = "comment" THEN CommentValues
    ELSE IF p = "type" THEN TypeValues \cup { << >> }
    ELSE StringValues

Databases == { << "d" >> }
Schemas == { << "s" >> }
Names == { << "n" >>, << "m" >> }

\* FileFormat(name, db, schema): every other field has Go's zero value.
FileFormat(name, db, schema) ==
    [ name |-> name, db |-> db, schema |-> schema,
      v |-> [p \in Props |-> ZeroValue(p)],
      set |-> [p \in FlagProps |-> FALSE] ]

\* With<Property>(x): stores the value, and raises set<Property> for the
\* fields that have one.
With(b, p, x) ==
    [ b EXCEPT !.v[p] = x,
               !.set = IF p \in FlagProps THEN [ @ EXCEPT ![p] = TRUE ] ELSE @ ]

QualifiedName(b) ==
    << "\"" >> \o b.db \o << "\"", ".", "\"" >> \o b.schema
        \o << "\"", ".", "\"" >> \o b.name \o << "\"" >>

\* Emits with the BINARY_AS_TEXT and TRIM_SPACE clauses written whether or
\* not the builder was given them.
Emits_AlwaysBooleans(b, p) ==
    IF p \in {"binary_as_text", "trim_space"} THEN TRUE
    ELSE IF p \in FlagProps THEN b.set[p] ELSE Len(b.v[p]) > 0

\* The condition under which Create() writes the clause of a property.
Emits(b, p) ==
    IF p \in FlagProps THEN b.set[p] ELSE Len(b.v[p]) > 0

\* CreateValue with EscapeString applied to every text it puts in quotes.
CreateValue_EscapeAll(p, x) ==
    IF p \in BoolProps THEN FmtBool(x)
    ELSE IF p \in IntProps THEN FmtInt(x)
    ELSE IF p \in ListProps THEN
        << "(" >>
            \o Join([i \in 1..Len(x) |-> << "'" >> \o EscapeString(x[i]) \o << "'" >>],
                    << "," >>)
            \o << ")" >>
    ELSE IF p \in BareProps THEN x
    ELSE << "\"" >> \o EscapeString(x) \o << "\"" >>

\* The value part of a Create() clause.
CreateValue(p, x) ==
    IF p \in BoolProps THEN FmtBool(x)
    ELSE IF p \in IntProps THEN FmtInt(x)
    ELSE IF p \in ListProps THEN
        << "(" >>
            \o Join([i \in 1..Len(x) |-> << "'" >> \o EscapeString(x[i]) \o << "'" >>],
                    << "," >>)
            \o << ")" >>
    ELSE IF p \in BareProps THEN x
    ELSE IF p \in RawProps THEN << "\"" >> \o x \o << "\"" >>
    ELSE << "\"" >> \o EscapeString(x) \o << "\"" >>

CreateClause(b, p) ==
    IF Emits(b, p)
    THEN << " ", Keyword(p), " ", "=", " " >> \o CreateValue(p, b.v[p])
    ELSE << >>

\* Create() with the clauses of the flagged fields written before the others.
Create_FlagsFirst(b) ==
    << "CREATE", " ", "FILE", " ", "FORMAT", " " >> \o QualifiedName(b)
        \o Flatten([i \in 1..Len(PropOrder) |->
               IF PropOrder[i] \in FlagProps THEN CreateClause(b, PropOrder[i]) ELSE << >>])
        \o Flatten([i \in 1..Len(PropOrder) |->
               IF PropOrder[i] \in FlagProps THEN << >> ELSE CreateClause(b, PropOrder[i])])

\* Create(): the clauses are written in the order of PropOrder.
Create(b) ==
    << "CREATE", " ", "FILE", " ", "FORMAT", " " >> \o QualifiedName(b)
        \o Flatten([i \in 1..Len(PropOrder) |-> CreateClause(b, PropOrder[i])])

\* ChangeValue with the comment and the compression in single quotes, not
\* escaped.
ChangeValue_SingleQuoted(p, x) ==
    IF p \in {"comment", "compression"} THEN << "'" >> \o x \o << "'" >>
    ELSE IF p \in BoolProps THEN FmtBool(x)
    ELSE IF p \in IntProps THEN FmtInt(x)
    ELSE IF p \in ListProps THEN
        << "(" >>
            \o Join([i \in 1..Len(x) |-> << "'" >> \o EscapeString(x[i]) \o << "'" >>],
                    << "," >>)
            \o << ")" >>
    ELSE IF p \in BareProps THEN x
    ELSE IF p \in RawProps THEN << "\"" >> \o x \o << "\"" >>
    ELSE << "\"" >> \o EscapeString(x) \o << "\"" >>

\* ChangeValue leaving the empty elements of a list out.
ChangeValue_DropEmpty(p, x) ==
    IF p \in BoolProps THEN FmtBool(x)
    ELSE IF p \in IntProps THEN FmtInt(x)
    ELSE IF p \in ListProps THEN
        LET kept == SelectSeq(x, LAMBDA e : e # << >>)
        IN << "(" >>
               \o Join([i \in 1..Len(kept) |-> << "'" >> \o EscapeString(kept[i]) \o << "'" >>],
                       << "," >>)
               \o << ")" >>
    ELSE IF p \in BareProps THEN x
    ELSE IF p \in RawProps THEN << "\"" >> \o x \o << "\"" >>
    ELSE << "\"" >> \o EscapeString(x) \o << "\"" >>

\* The value part of a Change<Property>() statement.
ChangeValue(p, x) ==
    IF p \in BoolProps THEN FmtBool(x)
    ELSE IF p \in IntProps THEN FmtInt(x)
    ELSE IF p \in ListProps THEN
        << "(" >>
            \o Join([i \in 1..Len(x) |-> << "'" >> \o EscapeString(x[i]) \o << "'" >>],
                    << "," >>)
            \o << ")" >>
    ELSE IF p \in BareProps THEN x
    ELSE IF p \in RawProps THEN << "\"" >> \o x \o << "\"" >>
    ELSE << "\"" >> \o EscapeString(x) \o << "\"" >>

\* Change<Property>(x)
Change(b, p, x) ==
    << "ALTER", " ", "FILE", " ", "FORMAT", " " >> \o QualifiedName(b)
        \o << " ", "SET", " ", Keyword(p), " ", "=", " " >> \o ChangeValue(p, x)

Drop(b) == << "DROP", " ", "FILE", " ", "FORMAT", " " >> \o QualifiedName(b)

Describe(b) == << "DESCRIBE", " ", "FILE", " ", "FORMAT", " " >> \o QualifiedName(b)

\* Show() filtering by database and schema.
Show_InSchema(b) ==
    << "SHOW", " ", "FILE", " ", "FORMATS", " ", "LIKE", " ", "'" >> \o b.name
        \o << "'", " ", "IN", " ", "SCHEMA", " ", "\"" >> \o b.db
        \o << "\"", ".", "\"" >> \o b.schema \o << "\"" >>

Show(b) ==
    << "SHOW", " ", "FILE", " ", "FORMATS", " ", "LIKE", " ", "'" >> \o b.name
        \o << "'", " ", "IN", " ", "DATABASE", " ", "\"" >> \o b.db \o << "\"" >>

\* The first word of a statement.
Verb(stmt) == stmt[1]

\* ------------------------------------------------------------ resource ID

fileFormatIDDelimiter == "|"
stageIDDelimiter == "|"

IsSpace(c) == c \in { " ", "\t", "\n", "\r" }

\* strings.TrimSpace
TrimSpace(s) ==
    LET keep == { i \in 1..Len(s) : ~IsSpace(s[i]) }
    IN IF keep = {} THEN << >>
       ELSE LET lo == CHOOSE i \in keep : \A j \in keep : i <= j
                hi == CHOOSE i \in keep : \A j \in keep : j <= i
            IN SubSeq(s, lo, hi)

\* encoding/csv Writer.fieldNeedsQuotes
fieldNeedsQuotes(field, comma) ==
    IF field = << >> THEN FALSE
    ELSE IF field = << "\\", "." >> THEN TRUE
    ELSE IF \E i \in 1..Len(field) : field[i] \in { "\n", "\r", "\"", comma } THEN TRUE
    ELSE IsSpace(field[1])

\* encoding/csv Writer: one field of a record
csvField(field, comma) ==
    IF fieldNeedsQuotes(field, comma)
    THEN << "\"" >>
            \o Flatten([i \in 1..Len(field) |->
                   IF field[i] = "\"" THEN << "\"", "\"" >> ELSE << field[i] >>])
            \o << "\"" >>
    ELSE field

fileFormatID(database, schema, name) ==
    [ DatabaseName |-> database, SchemaName |-> schema, FileFormatName |-> name ]

\* fileFormatID.String(): the record written by a csv.Writer, then TrimSpace
fileFormatIDString(fid) ==
    TrimSpace(
        Join(<< csvField(fid.DatabaseName, stageIDDelimiter),
                csvField(fid.SchemaName, stageIDDelimiter),
                csvField(fid.FileFormatName, stageIDDelimiter) >>,
             << stageIDDelimiter >>)
        \o << "\n" >>)

\* encoding/csv Reader on one line of a text: the fields of its record, or
\* the parse error.  mode is "start" at the start of a field,
\* "bare" inside an unquoted field, "quoted" inside a quoted field and
\* "closing" after a quote met inside a quoted field.
RECURSIVE csvRecord(_, _, _, _, _, _)
csvRecord(s, comma, i, mode, cur, acc) ==
    IF i > Len(s) THEN
        IF mode = "quoted" THEN [ ok |-> FALSE, fields |-> << >> ]
        ELSE [ ok |-> TRUE, fields |-> Append(acc, cur) ]
    ELSE
        LET c == s[i] IN
        CASE mode = "start" ->
                IF c = "\"" THEN csvRecord(s, comma, i + 1, "quoted", << >>, acc)
                ELSE IF c = comma THEN csvRecord(s, comma, i + 1, "start", << >>, Append(acc, << >>))
                ELSE csvRecord(s, comma, i + 1, "bare", << c >>, acc)
          [] mode = "bare" ->
                IF c = comma THEN csvRecord(s, comma, i + 1, "start", << >>, Append(acc, cur))
                ELSE IF c = "\"" THEN [ ok |-> FALSE, fields |-> << >> ]
                ELSE csvRecord(s, comma, i + 1, "bare", Append(cur, c), acc)
          [] mode = "quoted" ->
                IF c = "\"" THEN csvRecord(s, comma, i + 1, "closing", cur, acc)
                ELSE csvRecord(s, comma, i + 1, "quoted", Append(cur, c), acc)
          [] mode = "closing" ->
                IF c = "\"" THEN csvRecord(s, comma, i + 1, "quoted", Append(cur, c), acc)
                ELSE IF c = comma THEN csvRecord(s, comma, i + 1, "start", << >>, Append(acc, cur))
                ELSE [ ok |-> FALSE, fields |-> << >> ]

\* An error is the text of its message; nil is the empty text.
NoError == << >>
\* errors.Wrapf(cause, format, args...): the message, a colon and the cause
Wrapf(cause, msg) == msg \o << ":", " " >> \o cause

\* The lines an encoding/csv Reader cuts a text into: a line break inside a
\* quoted field belongs to the field.
RECURSIVE csvLines(_, _, _, _)
csvLines(s, i, quoted, cur) ==
    IF i > Len(s) THEN << cur >>
    ELSE IF s[i] = "\n" /\ ~quoted THEN << cur >> \o csvLines(s, i + 1, FALSE, << >>)
    ELSE csvLines(s, i + 1, IF s[i] = "\"" THEN ~quoted ELSE quoted, Append(cur, s[i]))

\* The records of the lines of a text, each the fields of the line or its
\* parse error.
csvRecords(lines, comma) ==
    [ i \in 1..Len(lines) |-> csvRecord(lines[i], comma, 1, "start", << >>, << >>) ]

\* The result of ReadAll on the records of the lines: the parse error of one
\* of them, or ErrFieldCount when a record has another number of fields than
\* the first, or the fields of every record.
csvAll(recs) ==
    IF \E i \in 1..Len(recs) : ~recs[i].ok \/ Len(recs[i].fields) # Len(recs[1].fields)
    THEN [ ok |-> FALSE, lines |-> << >> ]
    ELSE [ ok |-> TRUE, lines |-> [ i \in 1..Len(recs) |-> recs[i].fields ] ]

\* encoding/csv Reader.ReadAll: the records of the lines that are not empty,
\* or an error.
ReadAll(s, comma) ==
    csvAll(csvRecords(SelectSeq(csvLines(s, 1, FALSE, << >>), LAMBDA l : l # << >>), comma))

\* The ID of the records ReadAll returned, taking a record of fewer or more
\* than three fields, the missing fields empty.
fileFormatIDOf_PadFields(all) ==
    LET none == fileFormatID(<< >>, << >>, << >>)
        field(k) == IF k <= Len(all.lines[1]) THEN all.lines[1][k] ELSE << >>
    IN IF ~all.ok THEN [ err |-> << "Not CSV compatible" >>, id |-> none ]
       ELSE IF Len(all.lines) # 1 THEN [ err |-> << "1 line per file format" >>, id |-> none ]
       ELSE [ err |-> NoError, id |-> fileFormatID(field(1), field(2), field(3)) ]

\* fileFormatIDFromString after ReadAll: exactly one record of exactly three
\* fields, or an error and the empty ID.
fileFormatIDOf(all) ==
    LET none == fileFormatID(<< >>, << >>, << >>)
    IN IF ~all.ok THEN [ err |-> << "Not CSV compatible" >>, id |-> none ]
       ELSE IF Len(all.lines) # 1 THEN [ err |-> << "1 line per file format" >>, id |-> none ]
       ELSE IF Len(all.lines[1]) # 3 THEN [ err |-> << "3 fields allowed" >>, id |-> none ]
       ELSE [ err |-> NoError,
              id |-> fileFormatID(all.lines[1][1], all.lines[1][2], all.lines[1][3]) ]

\* fileFormatIDFromString: [err, id]
fileFormatIDFromString(stringID) == fileFormatIDOf(ReadAll(stringID, fileFormatIDDelimiter))

\* -------------------------------------------------------- database handle

\* The handle answers the statements of one handler call.  failAt is the
\* position of the statement that returns an error (0: none).  expect is
\* empty for a live database; for a sqlmock handle it lists the verbs of the
\* expectations in the order they were set up, and a statement that is not
\* the next expectation returns an error.  desc and show are the rows of
\* the DESCRIBE and SHOW queries.
Fulfilled(lg) == Cardinality({ i \in 1..Len(lg) : lg[i].met })

Answer(db, lg, stmt) ==
    LET k == Fulfilled(lg)
        expected == db.expect = << >>
                    \/ (k < Len(db.expect) /\ db.expect[k + 1] = Verb(stmt))
    IN [ met |-> db.expect # << >> /\ expected,
         ok |-> expected /\ Len(lg) + 1 # db.failAt ]

\* snowflake.Exec / snowflake.Query / snowflake.QueryRow: the statement is
\* recorded with the resource ID at the time it is sent.
Send(db, lg, stmt, idNow) ==
    LET a == Answer(db, lg, stmt)
    IN [ ok |-> a.ok,
         log |-> Append(lg, [ sql |-> stmt, idAt |-> idNow, ok |-> a.ok, met |-> a.met ]) ]

SqlError == << "sql: statement failed" >>

\* ------------------------------------------------------- DESCRIBE parser

DataProps == Props \ {"comment"}

\* the zero fileFormatData
ZeroData == [ p \in DataProps |-> ZeroValue(p) ]

\* A parse that reads only the texts true and false.
ParseBool_LowercaseOnly(s) ==
    IF s = << "true" >> THEN [ ok |-> TRUE, v |-> TRUE ]
    ELSE IF s = << "false" >> THEN [ ok |-> TRUE, v |-> FALSE ]
    ELSE [ ok |-> FALSE, v |-> FALSE ]

\* strconv.ParseBool
ParseBool(s) ==
    IF Len(s) = 1 /\ s[1] \in { "1", "t", "T", "TRUE", "true", "True" }
        THEN [ ok |-> TRUE, v |-> TRUE ]
    ELSE IF Len(s) = 1 /\ s[1] \in { "0", "f", "F", "FALSE", "false", "False" }
        THEN [ ok |-> TRUE, v |-> FALSE ]
    ELSE [ ok |-> FALSE, v |-> FALSE ]

Digits == << "0", "1", "2", "3", "4", "5", "6", "7", "8", "9" >>
IsDigit(c) == \E k \in 1..10 : Digits[k] = c
DigitValue(c) == (CHOOSE k \in 1..10 : Digits[k] = c) - 1

\* strconv.Atoi
Atoi(s) ==
    LET signed == Len(s) > 0 /\ s[1] \in { "+", "-" }
        ds == IF signed THEN Tail(s) ELSE s
        F[i \in 0..Len(ds)] == IF i = 0 THEN 0 ELSE 10 * F[i - 1] + DigitValue(ds[i])
    IN IF ds = << >> \/ \E i \in 1..Len(ds) : ~IsDigit(ds[i])
       THEN [ ok |-> FALSE, v |-> 0 ]
       ELSE [ ok |-> TRUE, v |-> IF signed /\ s[1] = "-" THEN 0 - F[Len(ds)] ELSE F[Len(ds)] ]

\* strings.Trim(s, cutset)
Trim(s, cutset) ==
    LET keep == { i \in 1..Len(s) : s[i] \notin cutset }
    IN IF keep = {} THEN << >>
       ELSE LET lo == CHOOSE i \in keep : \A j \in keep : i <= j
                hi == CHOOSE i \in keep : \A j \in keep : j <= i
            IN SubSeq(s, lo, hi)

\* strings.Split(s, sep) for a one-character separator
RECURSIVE Split(_, _)
Split(s, sep) ==
    IF \A i \in 1..Len(s) : s[i] # sep THEN << s >>
    ELSE LET k == CHOOSE i \in 1..Len(s) : s[i] = sep /\ \A j \in 1..(i - 1) : s[j] # sep
         IN << SubSeq(s, 1, k - 1) >> \o Split(SubSeq(s, k + 1, Len(s)), sep)

\* strings.Replace(s, old, new, -1) for a two-character old and a
\* one-character new
RECURSIVE ReplaceAll(_, _, _)
ReplaceAll(s, old, new) ==
    IF Len(s) < 2 THEN s
    ELSE IF s[1] = old[1] /\ s[2] = old[2]
        THEN << new >> \o ReplaceAll(SubSeq(s, 3, Len(s)), old, new)
    ELSE << s[1] >> \o ReplaceAll(Tail(s), old, new)

\* UnescapeString: the inverse replacements of EscapeString
UnescapeString(in) ==
    ReplaceAll(ReplaceAll(in, << "\\", "\\" >>, "\\"), << "\\", "'" >>, "'")

\* the property a DESCRIBE row names, "" when the parser has no case for it
RowProperty(row) ==
    IF \E p \in DataProps : Keyword(p) = row.property
    THEN CHOOSE p \in DataProps : Keyword(p) = row.property
    ELSE ""

\* DescFileFormat's case for one row: [ok, v]
RowValue(p, text) ==
    IF p \in BoolProps THEN ParseBool(text)
    ELSE IF p \in IntProps THEN Atoi(text)
    ELSE IF p \in ListProps THEN
        LET strs == Trim(text, { "[", "\"", "]" })
        IN IF Len(strs) < 1 THEN [ ok |-> TRUE, v |-> << >> ]
           ELSE LET nulls == Split(strs, ",")
                IN [ ok |-> TRUE,
                     v |-> [ i \in 1..Len(nulls) |-> UnescapeString(TrimSpace(nulls[i])) ] ]
    ELSE [ ok |-> TRUE, v |-> text ]

\* DescFileFormat's loop with an error for a property the switch has no
\* case for.
RECURSIVE DescRows_RejectUnknown(_, _, _)
DescRows_RejectUnknown(rows, i, result) ==
    IF i > Len(rows) THEN [ err |-> NoError, data |-> result ]
    ELSE LET p == RowProperty(rows[i]) IN
         IF p = "" THEN [ err |-> << "unknown property" >>, data |-> ZeroData ]
         ELSE LET r == RowValue(p, rows[i].property_value) IN
              IF ~r.ok THEN [ err |-> << "strconv: invalid syntax" >>, data |-> ZeroData ]
              ELSE DescRows_RejectUnknown(rows, i + 1, [ result EXCEPT ![p] = r.v ])

\* DescFileFormat's loop returning the fields parsed so far with the error.
RECURSIVE DescRows_KeepParsed(_, _, _)
DescRows_KeepParsed(rows, i, result) ==
    IF i > Len(rows) THEN [ err |-> NoError, data |-> result ]
    ELSE LET p == RowProperty(rows[i]) IN
         IF p = "" THEN DescRows_KeepParsed(rows, i + 1, result)
         ELSE LET r == RowValue(p, rows[i].property_value) IN
              IF ~r.ok THEN [ err |-> << "strconv: invalid syntax" >>, data |-> result ]
              ELSE DescRows_KeepParsed(rows, i + 1, [ result EXCEPT ![p] = r.v ])

\* DescFileFormat's loop over the rows from row i on, result holding the
\* fields parsed so far: [err, data]
RECURSIVE DescRows(_, _, _)
DescRows(rows, i, result) ==
    IF i > Len(rows) THEN [ err |-> NoError, data |-> result ]
    ELSE LET p == RowProperty(rows[i]) IN
         IF p = "" THEN DescRows(rows, i + 1, result)
         ELSE LET r == RowValue(p, rows[i].property_value) IN
              IF ~r.ok THEN [ err |-> << "strconv: invalid syntax" >>, data |-> ZeroData ]
              ELSE DescRows(rows, i + 1, [ result EXCEPT ![p] = r.v ])

\* DescFileFormat(db, query): [log, err, data]
DescFileFormat(db, lg, query, idNow) ==
    LET q == Send(db, lg, query, idNow)
    IN IF ~q.ok THEN [ log |-> q.log, err |-> SqlError, data |-> ZeroData ]
       ELSE LET r == DescRows(db.desc, 1, ZeroData)
            IN [ log |-> q.log, err |-> r.err, data |-> r.data ]

\* ------------------------------------------------------ lifecycle adapter

Attrs == {"name", "database", "schema"} \cup Props

\* the attributes of a resource that was never read
ZeroState ==
    [ a \in Attrs |-> IF a \in Props THEN ZeroValue(a) ELSE << >> ]

\* The keys ReadFileFormat writes with data.Set, in order.
ReadOrder ==
    << "name", "database", "schema", "comment", "type" >> \o SubSeq(PropOrder, 3, Len(PropOrder))

\* The row the warehouse returns to Show(): the object of the builder's name
\* and database, in the builder's schema or, because SHOW does not filter by
\* schema, in another one.
ShowRow(db, builder) ==
    [ name |-> builder.name,
      database_name |-> builder.db,
      schema_name |-> IF db.show = "other_schema" THEN << "other" >> ELSE builder.schema,
      comment |-> db.comment ]

\* snowflake.QueryRow(db, builder.Show()) and ScanFileFormatShow(row):
\* [log, err, meta]
ScanFileFormatShow(db, lg, builder, idNow) ==
    LET q == Send(db, lg, Show(builder), idNow)
    IN IF ~q.ok THEN [ log |-> q.log, err |-> SqlError, meta |-> ShowRow(db, builder) ]
       ELSE IF db.show = "none"
           THEN [ log |-> q.log, err |-> << "sql: no rows in result set" >>,
                  meta |-> ShowRow(db, builder) ]
       ELSE [ log |-> q.log, err |-> NoError, meta |-> ShowRow(db, builder) ]

\* The outcome of a handler: the resource data it leaves and what it did.
Outcome(d, lg, e, w, part) ==
    [ id |-> d.id, st |-> d.st, log |-> lg, err |-> e, writes |-> w, partial |-> part ]

\* ReadFileFormat sending the SHOW query before the DESCRIBE query.
ReadFileFormat_ShowFirst(d, db, lg, part) ==
    LET dec == fileFormatIDFromString(d.id) IN
    IF dec.err # NoError THEN Outcome(d, lg, dec.err, << >>, part)
    ELSE
        LET builder == FileFormat(dec.id.FileFormatName, dec.id.DatabaseName, dec.id.SchemaName)
            sh == ScanFileFormatShow(db, lg, builder, d.id)
        IN IF sh.err # NoError THEN Outcome(d, sh.log, sh.err, << >>, part)
           ELSE
               LET ff == DescFileFormat(db, sh.log, Describe(builder), d.id) IN
               IF ff.err # NoError THEN Outcome(d, ff.log, ff.err, << >>, part)
               ELSE
                   LET set == [ a \in Attrs |->
                                  CASE a = "name" -> sh.meta.name
                                    [] a = "database" -> sh.meta.database_name
                                    [] a = "schema" -> sh.meta.schema_name
                                    [] a = "comment" -> sh.meta.comment
                                    [] OTHER -> ff.data[a] ]
                   IN Outcome([ d EXCEPT !.st = set ], ff.log, NoError, ReadOrder, part)

\* ReadFileFormat setting the resource ID from the row SHOW returned.
ReadFileFormat_SetIdFromShow(d, db, lg, part) ==
    LET dec == fileFormatIDFromString(d.id) IN
    IF dec.err # NoError THEN Outcome(d, lg, dec.err, << >>, part)
    ELSE
        LET builder == FileFormat(dec.id.FileFormatName, dec.id.DatabaseName, dec.id.SchemaName)
            ff == DescFileFormat(db, lg, Describe(builder), d.id)
        IN IF ff.err # NoError THEN Outcome(d, ff.log, ff.err, << >>, part)
           ELSE
               LET sh == ScanFileFormatShow(db, ff.log, builder, d.id) IN
               IF sh.err # NoError THEN Outcome(d, sh.log, sh.err, << >>, part)
               ELSE
                   LET set == [ a \in Attrs |->
                                  CASE a = "name" -> sh.meta.name
                                    [] a = "database" -> sh.meta.database_name
                                    [] a = "schema" -> sh.meta.schema_name
                                    [] a = "comment" -> sh.meta.comment
                                    [] OTHER -> ff.data[a] ]
                       shown == fileFormatIDString(fileFormatID(sh.meta.database_name,
                                    sh.meta.schema_name, sh.meta.name))
                   IN Outcome([ d EXCEPT !.st = set, !.id = shown ], sh.log, NoError,
                              ReadOrder, part)

\* ReadFileFormat, continuing the log lg of the handler that calls it
ReadFileFormat(d, db, lg, part) ==
    LET dec == fileFormatIDFromString(d.id) IN
    IF dec.err # NoError THEN Outcome(d, lg, dec.err, << >>, part)
    ELSE
        LET builder == FileFormat(dec.id.FileFormatName, dec.id.DatabaseName, dec.id.SchemaName)
            ff == DescFileFormat(db, lg, Describe(builder), d.id)
        IN IF ff.err # NoError THEN Outcome(d, ff.log, ff.err, << >>, part)
           ELSE
               LET sh == ScanFileFormatShow(db, ff.log, builder, d.id) IN
               IF sh.err # NoError THEN Outcome(d, sh.log, sh.err, << >>, part)
               ELSE
                   LET set == [ a \in Attrs |->
                                  CASE a = "name" -> sh.meta.name
                                    [] a = "database" -> sh.meta.database_name
                                    [] a = "schema" -> sh.meta.schema_name
                                    [] a = "comment" -> sh.meta.comment
                                    [] OTHER -> ff.data[a] ]
                   IN Outcome([ d EXCEPT !.st = set ], sh.log, NoError, ReadOrder, part)

\* data.Get(key) on the configuration
Get(c, p) == IF c.opt[p].set THEN c.opt[p].v ELSE ZeroValue(p)

\* data.GetOk(key): ok only for a value that is set and is not the zero value
GetOk(c, p) ==
    [ v |-> Get(c, p), ok |-> c.opt[p].set /\ c.opt[p].v # ZeroValue(p) ]

\* CreateFileFormat's "Set optionals" blocks from block i on
RECURSIVE SetOptionals(_, _, _)
SetOptionals(builder, c, i) ==
    IF i > Len(PropOrder) THEN builder
    ELSE LET p == PropOrder[i]
             g == GetOk(c, p)
         IN SetOptionals(IF g.ok THEN With(builder, p, g.v) ELSE builder, c, i + 1)

\* CreateFileFormat calling ReadFileFormat before data.SetId.
CreateFileFormat_ReadBeforeSetId(d, c, db) ==
    LET builder == SetOptionals(
                       With(FileFormat(c.name, c.database, c.schema), "type", Get(c, "type")),
                       c, 2)
        q == Send(db, << >>, Create(builder), d.id)
    IN IF ~q.ok
       THEN Outcome(d, q.log, Wrapf(SqlError, << "error creating file format", " " >> \o c.name), << >>, {})
       ELSE LET idStr == fileFormatIDString(fileFormatID(c.database, c.schema, c.name))
                r == ReadFileFormat(d, db, q.log, {})
            IN [ r EXCEPT !.id = idStr ]

\* CreateFileFormat going on after a failed CREATE statement.
CreateFileFormat_IgnoreExecError(d, c, db) ==
    LET builder == SetOptionals(
                       With(FileFormat(c.name, c.database, c.schema), "type", Get(c, "type")),
                       c, 2)
        q == Send(db, << >>, Create(builder), d.id)
        idStr == fileFormatIDString(fileFormatID(c.database, c.schema, c.name))
    IN ReadFileFormat([ d EXCEPT !.id = idStr ], db, q.log, {})

\* CreateFileFormat taking the ID back when the Read after CREATE fails.
CreateFileFormat_ClearIdOnReadFailure(d, c, db) ==
    LET builder == SetOptionals(
                       With(FileFormat(c.name, c.database, c.schema), "type", Get(c, "type")),
                       c, 2)
        q == Send(db, << >>, Create(builder), d.id)
    IN IF ~q.ok
       THEN Outcome(d, q.log, Wrapf(SqlError, << "error creating file format", " " >> \o c.name), << >>, {})
       ELSE LET idStr == fileFormatIDString(fileFormatID(c.database, c.schema, c.name))
                r == ReadFileFormat([ d EXCEPT !.id = idStr ], db, q.log, {})
            IN IF r.err # NoError THEN [ r EXCEPT !.id = << >> ] ELSE r

\* CreateFileFormat
CreateFileFormat(d, c, db) ==
    LET builder == SetOptionals(
                       With(FileFormat(c.name, c.database, c.schema), "type", Get(c, "type")),
                       c, 2)
        q == Send(db, << >>, Create(builder), d.id)
    IN IF ~q.ok
       THEN Outcome(d, q.log, Wrapf(SqlError, << "error creating file format", " " >> \o c.name), << >>, {})
       ELSE LET idStr == fileFormatIDString(fileFormatID(c.database, c.schema, c.name))
            IN ReadFileFormat([ d EXCEPT !.id = idStr ], db, q.log, {})

\* The planned value of a property in an update: the configured value; for
\* a property the configuration leaves out, the prior value when the
\* property is Computed and the zero value otherwise.
Computed(p) == p # "comment"
GetChange(d, c, p) ==
    IF c.opt[p].set THEN c.opt[p].v
    ELSE IF Computed(p) THEN d.st[p]
    ELSE ZeroValue(p)

\* HasChange true for every property the configuration provides.
HasChange_Configured(d, c, p) == c.opt[p].set

HasChange(d, c, p) == GetChange(d, c, p) # d.st[p]

\* The words that name a property in the error of its HasChange block.
UpdateLabel(p) ==
    CASE p = "binary_as_text" -> "binary as text"
      [] p = "trim_space" -> "trim space"
      [] p = "null_if" -> "null if"
      [] OTHER -> p

\* The HasChange blocks going on to the next block when a statement failed.
RECURSIVE ChangeBlocks_ContinueAfterFailure(_, _, _, _, _, _, _)
ChangeBlocks_ContinueAfterFailure(d, c, db, builder, i, lg, part) ==
    IF i > Len(PropOrder) THEN ReadFileFormat(d, db, lg, part)
    ELSE LET p == PropOrder[i] IN
         IF ~HasChange(d, c, p)
             THEN ChangeBlocks_ContinueAfterFailure(d, c, db, builder, i + 1, lg, part)
         ELSE LET q == Send(db, lg, Change(builder, p, GetChange(d, c, p)), d.id)
              IN ChangeBlocks_ContinueAfterFailure(d, c, db, builder, i + 1, q.log,
                     IF q.ok THEN part \cup {p} ELSE part)

\* UpdateFileFormat's HasChange blocks from block i on
RECURSIVE ChangeBlocks(_, _, _, _, _, _, _)
ChangeBlocks(d, c, db, builder, i, lg, part) ==
    IF i > Len(PropOrder) THEN ReadFileFormat(d, db, lg, part)
    ELSE LET p == PropOrder[i] IN
         IF ~HasChange(d, c, p) THEN ChangeBlocks(d, c, db, builder, i + 1, lg, part)
         ELSE LET q == Send(db, lg, Change(builder, p, GetChange(d, c, p)), d.id)
              IN IF ~q.ok
                 THEN Outcome(d, q.log,
                              Wrapf(SqlError,
                                    << "error updating file format", " ", UpdateLabel(p),
                                       " ", "on", " " >> \o d.id),
                              << >>, part)
                 ELSE ChangeBlocks(d, c, db, builder, i + 1, q.log, part \cup {p})

\* UpdateFileFormat
UpdateFileFormat(d, c, db) ==
    LET dec == fileFormatIDFromString(d.id) IN
    IF dec.err # NoError THEN Outcome(d, << >>, dec.err, << >>, {})
    ELSE ChangeBlocks(d, c, db,
             FileFormat(dec.id.FileFormatName, dec.id.DatabaseName, dec.id.SchemaName),
             2, << >>, {})

\* DeleteFileFormat clearing the ID before the DROP statement is executed.
DeleteFileFormat_ClearFirst(d, db) ==
    LET dec == fileFormatIDFromString(d.id) IN
    IF dec.err # NoError THEN Outcome(d, << >>, dec.err, << >>, {})
    ELSE LET builder == FileFormat(dec.id.FileFormatName, dec.id.DatabaseName, dec.id.SchemaName)
             q == Send(db, << >>, Drop(builder), d.id)
         IN IF ~q.ok
            THEN Outcome([ d EXCEPT !.id = << >> ], q.log,
                         Wrapf(SqlError, << "error deleting file format", " " >> \o d.id), << >>, {})
            ELSE Outcome([ d EXCEPT !.id = << >> ], q.log, NoError, << >>, {})

\* DeleteFileFormat
DeleteFileFormat(d, db) ==
    LET dec == fileFormatIDFromString(d.id) IN
    IF dec.err # NoError THEN Outcome(d, << >>, dec.err, << >>, {})
    ELSE LET builder == FileFormat(dec.id.FileFormatName, dec.id.DatabaseName, dec.id.SchemaName)
             q == Send(db, << >>, Drop(builder), d.id)
         IN IF ~q.ok
            THEN Outcome(d, q.log, Wrapf(SqlError, << "error deleting file format", " " >> \o d.id), << >>, {})
            ELSE Outcome([ d EXCEPT !.id = << >> ], q.log, NoError, << >>, {})

\* ---------------------------------------------------------------- inputs

\* The subsets of S with at most k elements.
RECURSIVE KSubsets(_, _)
KSubsets(S, k) ==
    IF k = 0 THEN { {} }
    ELSE LET smaller == KSubsets(S, k - 1)
         IN smaller \cup { T \cup {x} : T \in smaller, x \in S }

\* A value of a property other than the zero value.
NonZero(p) ==
    IF p \in BoolProps THEN TRUE
    ELSE IF p \in IntProps THEN 1
    ELSE IF p \in ListProps THEN << << "\\", "N" >>, << "NULL" >>, << >> >>
    ELSE << "x" >>

OptProps == Props \ {"type"}

\* The sets of optional properties a configuration may provide, and the sets
\* of properties an update plan may change.
ProvidedSets == KSubsets(OptProps, MaxSet)
ChangedSets == KSubsets(OptProps, MaxChanged)

\* The required attributes of the configurations.
Required ==
    { [ name |-> << "n" >>, database |-> << "d" >>, schema |-> << "s" >>, type |-> << "parquet" >> ],
      [ name |-> << "n" >>, database |-> << "d" >>, schema |-> << "s" >>, type |-> << "csv" >> ] }

NoConfig ==
    [ name |-> << >>, database |-> << >>, schema |-> << >>,
      opt |-> [ p \in Props |-> [ set |-> FALSE, v |-> ZeroValue(p) ] ] ]

\* A configuration: the required name, database, schema and type, and the
\* optional properties of `provided`, those of `zeros` with the zero value.
Config(name, database, schema, type, provided, zeros) ==
    [ name |-> name, database |-> database, schema |-> schema,
      opt |-> [ p \in Props |->
                  IF p = "type" THEN [ set |-> TRUE, v |-> type ]
                  ELSE IF p \in zeros THEN [ set |-> TRUE, v |-> ZeroValue(p) ]
                  ELSE IF p \in provided THEN [ set |-> TRUE, v |-> NonZero(p) ]
                  ELSE [ set |-> FALSE, v |-> ZeroValue(p) ] ] ]

\* An update plan: the configuration keeps the comment it had and gives the
\* properties of `changed` a value other than the prior one.
Plan(d, changed) ==
    [ name |-> d.st["name"], database |-> d.st["database"], schema |-> d.st["schema"],
      opt |-> [ p \in Props |->
                  IF p \in changed
                      THEN [ set |-> TRUE,
                             v |-> IF d.st[p] = NonZero(p) THEN ZeroValue(p) ELSE NonZero(p) ]
                  ELSE IF p \in {"type", "comment"} THEN [ set |-> TRUE, v |-> d.st[p] ]
                  ELSE [ set |-> FALSE, v |-> ZeroValue(p) ] ] ]

Row(property, type, value, default) ==
    [ property |-> property, property_type |-> type,
      property_value |-> value, property_default |-> default ]

\* The DESCRIBE rows of expectReadFileFormat.
DescRowsTest ==
    << Row("TYPE", "String", << "parquet" >>, << "CSV" >>),
       Row("TRIM_SPACE", "Boolean", << "false" >>, << "false" >>),
       Row("NULL_IF", "List",
           << "[", "\"", "\\", "\\", "N", "\"", ",", "\"", "NULL", "\"", ",", "\"", "\"", "]" >>,
           << "[", "\"", "\\", "\\", "N", "\"", "]" >>),
       Row("COMPRESSION", "String", << "AUTO" >>, << "AUTO" >>),
       Row("BINARY_AS_TEXT", "Boolean", << "true" >>, << "true" >>) >>

\* DESCRIBE rows of a csv file format, with a property the parser has no case for.
DescRowsCsv ==
    << Row("TYPE", "String", << "csv" >>, << "CSV" >>),
       Row("FIELD_DELIMITER", "String", << "," >>, << "," >>),
       Row("SKIP_HEADER", "Integer", << "1", "2" >>, << "0" >>),
       Row("MULTI_LINE", "Boolean", << "yes" >>, << "no" >>),
       Row("NULL_IF", "List", << "[", "]" >>, << "[", "\"", "\\", "\\", "N", "\"", "]" >>),
       Row("BINARY_AS_TEXT", "Boolean", << "false" >>, << "true" >>) >>

\* DESCRIBE rows with a boolean the parser cannot read.
DescRowsBad ==
    << Row("TYPE", "String", << "parquet" >>, << "CSV" >>),
       Row("TRIM_SPACE", "Boolean", << "maybe" >>, << "false" >>) >>

DescAnswers == { DescRowsTest, DescRowsCsv, DescRowsBad }
ShowAnswers == { "match", "other_schema", "none" }

Handle(failAt, expect, desc, show) ==
    [ failAt |-> failAt, expect |-> expect, desc |-> desc, show |-> show,
      comment |-> << "x" >> ]

NoHandle == Handle(0, << >>, << >>, "none")

\* A live database in which statement failAt fails, or none does.
FailingHandles(maxStmts) ==
    { Handle(f, << >>, DescRowsTest, "match") : f \in 0..maxStmts }

\* A live database in which no statement fails, with the rows it may return.
AnsweringHandles ==
    { Handle(0, << >>, r, "match") : r \in DescAnswers }
        \cup { Handle(0, << >>, DescRowsTest, s) : s \in ShowAnswers }

\* The sqlmock handle of TestFileFormatRead: expectReadFileFormat sets up
\* the SHOW expectation, then the DESCRIBE expectation.
MockReadHandle == Handle(0, << "SHOW", "DESCRIBE" >>, DescRowsTest, "match")

\* The sqlmock handle of TestFileFormatCreate: the CREATE expectation, then
\* those of expectReadFileFormat.
MockCreateHandle == Handle(0, << "CREATE", "SHOW", "DESCRIBE" >>, DescRowsTest, "match")

\* ------------------------------------------------------------- lifecycle

Data == [ id |-> id, st |-> st ]

InitLifecycle ==
    /\ pc = "idle"
    /\ id = << >>
    /\ st = ZeroState
    /\ cfg = NoConfig
    /\ log = << >>
    /\ err = NoError
    /\ writes = << >>
    /\ partial = {}
    /\ prior = [ id |-> << >>, st |-> ZeroState ]
    /\ dbh = NoHandle

Returns(handler, c, db, out) ==
    /\ pc' = handler
    /\ cfg' = c
    /\ dbh' = db
    /\ prior' = Data
    /\ id' = out.id
    /\ st' = out.st
    /\ log' = out.log
    /\ err' = out.err
    /\ writes' = out.writes
    /\ partial' = out.partial
    /\ UNCHANGED builderVars
    /\ UNCHANGED callVars

\* The framework creates a resource that has no ID yet.
DoCreate ==
    /\ pc = "idle"
    /\ id = << >>
    /\ \E r \in Required, provided \in ProvidedSets :
          \E zeros \in { {} } \cup { {p} : p \in provided },
             db \in FailingHandles(3) \cup AnsweringHandles \cup { MockCreateHandle } :
             LET c == Config(r.name, r.database, r.schema, r.type, provided, zeros)
             IN Returns("CreateFileFormat", c, db, CreateFileFormat(Data, c, db))

\* The framework refreshes a resource that has an ID.
DoRead ==
    /\ pc = "idle"
    /\ id # << >>
    /\ \E db \in FailingHandles(2) \cup AnsweringHandles \cup { MockReadHandle } :
          Returns("ReadFileFormat", NoConfig, db, ReadFileFormat(Data, db, << >>, {}))

\* The framework applies a plan that changes properties of a resource.
DoUpdate ==
    /\ pc = "idle"
    /\ id # << >>
    /\ \E changed \in ChangedSets :
          \E db \in FailingHandles(Cardinality(changed) + 2) \cup { Handle(0, << >>, DescRowsBad, "match") } :
             LET c == Plan(Data, changed)
             IN Returns("UpdateFileFormat", c, db, UpdateFileFormat(Data, c, db))

\* The framework destroys a resource that has an ID.
DoDelete ==
    /\ pc = "idle"
    /\ id # << >>
    /\ \E db \in FailingHandles(1) :
          Returns("DeleteFileFormat", NoConfig, db, DeleteFileFormat(Data, db))

\* The framework takes the handler's result; a resource without ID is gone.
Return ==
    /\ pc # "idle"
    /\ pc' = "idle"
    /\ cfg' = NoConfig
    /\ dbh' = NoHandle
    /\ log' = << >>
    /\ err' = NoError
    /\ writes' = << >>
    /\ partial' = {}
    /\ prior' = [ id |-> << >>, st |-> ZeroState ]
    /\ id' = id
    /\ st' = IF id = << >> THEN ZeroState ELSE st
    /\ UNCHANGED builderVars
    /\ UNCHANGED callVars

\* ------------------------------------------------------ builder under test

InitBuilder ==
    /\ \E name \in Names, database \in Databases, schema \in Schemas :
          fb = FileFormat(name, database, schema)
    /\ sql = Create(fb)
    /\ given = [ p \in Props |-> [ set |-> FALSE, v |-> ZeroValue(p) ] ]

\* A test step: one With<Property> call, then Create().
WithThenCreate ==
    \E p \in Props :
        /\ Cardinality({ q \in Props : given[q].set } \cup {p}) <= MaxWith
        /\ \E x \in Values(p) :
              /\ fb' = With(fb, p, x)
              /\ sql' = Create(fb')
              /\ given' = [ given EXCEPT ![p] = [ set |-> TRUE, v |-> x ] ]
        /\ UNCHANGED lifecycleVars
        /\ UNCHANGED callVars

\* ---------------------------------------------------- functions under test

InitCalls ==
    /\ fn = "none"
    /\ arg = << >>
    /\ res = << >>

\* The builders whose statements are compared: two schemas, so that two
\* builders may differ in the schema only.
SchemasUnderTest == Schemas \cup { << "t" >> }

BuildersUnderTest ==
    { FileFormat(n, d, s) : n \in Names, d \in Databases, s \in SchemasUnderTest }

\* The sequences over S of at most k elements.
ListsOf(S, k) == UNION { [ 1..n -> S ] : n \in 0..k }

\* Elements of null_if lists: empty, plain, with a backslash, a comma, a
\* double quote, brackets, a single quote, and with a blank at either end.
ElemValues ==
    { << >>, << "a" >>, << "\\", "N" >>, << "NULL" >>, << "a", ",", "b" >>, << "\"" >>,
      << "[", "a", "]" >>, << " ", "a" >>, << "a", " " >>, << "'" >> }

NullIfLists == ListsOf(ElemValues, MaxList)

\* Comments given to ChangeComment.
Comments ==
    CommentValues \cup { << "\\" >>, << "'", "'" >>, << "a", " ", "b" >>, << "\"" >> }

\* The arguments given to Change<Property>.
ChangeArgs(p) ==
    IF p \in ListProps THEN NullIfLists
    ELSE IF p = "comment" THEN Comments
    ELSE Values(p)

\* Every function under test is called once, on the arguments of its own
\* test.

\* One Change<Property>(x) call on a builder.
CallChange ==
    /\ fn = "none"
    /\ \E b \in BuildersUnderTest, p \in OptProps :
          \E x \in ChangeArgs(p) :
             /\ fn' = "Change"
             /\ arg' = [ b |-> b, p |-> p, x |-> x ]
             /\ res' = Change(b, p, x)
    /\ UNCHANGED << builderVars, lifecycleVars >>

CallDrop ==
    /\ fn = "none"
    /\ \E b \in BuildersUnderTest :
          /\ fn' = "Drop"
          /\ arg' = [ b |-> b ]
          /\ res' = Drop(b)
    /\ UNCHANGED << builderVars, lifecycleVars >>

CallDescribe ==
    /\ fn = "none"
    /\ \E b \in BuildersUnderTest :
          /\ fn' = "Describe"
          /\ arg' = [ b |-> b ]
          /\ res' = Describe(b)
    /\ UNCHANGED << builderVars, lifecycleVars >>

\* Show() on a builder and on the builder of the same name and database in
\* the schema `schema`.
CallShow ==
    /\ fn = "none"
    /\ \E b \in BuildersUnderTest, schema \in SchemasUnderTest :
          /\ fn' = "Show"
          /\ arg' = [ b |-> b, schema |-> schema ]
          /\ res' = [ show |-> Show(b),
                      other |-> Show(FileFormat(b.name, b.db, schema)) ]
    /\ UNCHANGED << builderVars, lifecycleVars >>

\* -------------------------------------------------------- specifications

Init == InitBuilder /\ InitLifecycle /\ InitCalls /\ fb.name = << "n" >>

Next == DoCreate \/ DoRead \/ DoUpdate \/ DoDelete \/ Return

Spec == Init /\ [][Next]_vars

NextBuilder == WithThenCreate

\* The text DESCRIBE reports for a null_if list: the elements escaped, in
\* double quotes, separated by commas, inside brackets.
DescribeRendering(L) ==
    << "[" >>
        \o Join([ i \in 1..Len(L) |-> << "\"" >> \o EscapeString(L[i]) \o << "\"" >> ],
                << "," >>)
        \o << "]" >>

NullIfRow(L) ==
    Row("NULL_IF", "List", DescribeRendering(L), << "[", "\"", "\\", "\\", "N", "\"", "]" >>)

\* Rows of properties DescFileFormat's switch has no case for.
UnknownRows ==
    { Row("MULTI_LINE", "Boolean", << "yes" >>, << "no" >>),
      Row("type", "String", << "json" >>, << "CSV" >>),
      Row("FORMAT_NAME", "List", << "[", "\"", "]" >>, << >>),
      Row("SIZE_LIMIT", "Integer", << "many" >>, << "0" >>) }

\* DescFileFormat on a database that answers the DESCRIBE query with `rows`:
\* [err, data]
DescOf(rows) ==
    LET b == FileFormat(<< "n" >>, << "d" >>, << "s" >>)
        r == DescFileFormat(Handle(0, << >>, rows, "match"), << >>, Describe(b), << >>)
    IN [ err |-> r.err, data |-> r.data ]

\* DescFileFormat on a DESCRIBE result.
CallDescFileFormat ==
    /\ fn = "none"
    /\ \E rows \in DescAnswers :
          /\ fn' = "DescFileFormat"
          /\ arg' = [ base |-> rows, rows |-> rows ]
          /\ res' = [ base |-> DescOf(rows), now |-> DescOf(rows) ]
    /\ UNCHANGED << builderVars, lifecycleVars >>

\* DescFileFormat on the DESCRIBE result that reports the null_if list L.
CallDescNullIf ==
    /\ fn = "none"
    /\ \E L \in NullIfLists :
          /\ fn' = "DescNullIf"
          /\ arg' = [ list |-> L, rows |-> << NullIfRow(L) >> ]
          /\ res' = DescOf(<< NullIfRow(L) >>)
    /\ UNCHANGED << builderVars, lifecycleVars >>

\* DescFileFormat again, on the DESCRIBE result with one more row of a
\* property it does not model, at any position.
InsertUnknownRow ==
    /\ fn = "DescFileFormat"
    /\ Len(arg.rows) - Len(arg.base) < MaxUnknown
    /\ \E k \in 0..Len(arg.rows), r \in UnknownRows :
          LET rows == SubSeq(arg.rows, 1, k) \o << r >> \o SubSeq(arg.rows, k + 1, Len(arg.rows))
          IN /\ arg' = [ arg EXCEPT !.rows = rows ]
             /\ res' = [ res EXCEPT !.now = DescOf(rows) ]
    /\ UNCHANGED << fn, builderVars, lifecycleVars >>

\* Components of resource IDs: empty, plain, with the delimiter, with a
\* double quote, and with a blank at the start, at the end and inside.
IDComponents ==
    { << >>, << "a" >>, << "a", "|", "b" >>, << "\"" >>, << " ", "a" >>, << "a", " " >>,
      << "a", " ", "b" >> }

\* fileFormatID.String() on a triple.
CallIDString ==
    /\ fn = "none"
    /\ \E database \in IDComponents, schema \in IDComponents, name \in IDComponents :
          /\ fn' = "fileFormatID.String"
          /\ arg' = [ database |-> database, schema |-> schema, name |-> name ]
          /\ res' = [ string |-> fileFormatIDString(fileFormatID(database, schema, name)) ]
    /\ UNCHANGED << builderVars, lifecycleVars >>

\* fileFormatIDFromString on the text String() returned.
CallIDFromString ==
    /\ fn = "fileFormatID.String"
    /\ fn' = "fileFormatIDFromString"
    /\ res' = [ string |-> res.string, decoded |-> fileFormatIDFromString(res.string) ]
    /\ UNCHANGED << arg, builderVars, lifecycleVars >>

\* The value texts of boolean and of integer rows: those DESCRIBE reports,
\* other spellings, and texts that are no boolean and no integer.
BoolTexts ==
    { << x >> : x \in { "true", "false", "TRUE", "FALSE", "True", "False", "1", "0",
                        "t", "f", "T", "F", "yes", "maybe", "tRuE", "2" } } \cup { << >> }
IntTexts ==
    { << "0" >>, << "1", "2" >>, << "-", "3" >>, << "+", "4" >>, << >>, << "many" >>,
      << "1", ".", "5" >>, << "1", "x" >> }

TypedRows ==
    { Row(Keyword(p), "Boolean", x, << "false" >>) : p \in BoolProps, x \in BoolTexts }
        \cup { Row(Keyword(p), "Integer", x, << "0" >>) : p \in IntProps, x \in IntTexts }

\* A resource that has an ID and was never read.
UnreadData ==
    [ id |-> fileFormatIDString(fileFormatID(<< "d" >>, << "s" >>, << "n" >>)),
      st |-> ZeroState ]

\* DescFileFormat and ReadFileFormat on a DESCRIBE result that holds the
\* boolean or integer row `row` as its row number `at`.
CallReadFileFormat ==
    /\ fn = "none"
    /\ \E base \in { DescRowsTest, DescRowsCsv }, row \in TypedRows :
          \E k \in 0..Len(base) :
             LET rows == SubSeq(base, 1, k) \o << row >> \o SubSeq(base, k + 1, Len(base))
             IN /\ fn' = "ReadFileFormat"
                /\ arg' = [ data |-> UnreadData, rows |-> rows, at |-> k + 1, row |-> row ]
                /\ res' = [ desc |-> DescOf(rows),
                            read |-> ReadFileFormat(UnreadData,
                                         Handle(0, << >>, rows, "match"), << >>, {}) ]
    /\ UNCHANGED << builderVars, lifecycleVars >>

\* Resource ID texts as an import may set them: of no record, of one, two
\* and four fields, of two records, with a quote inside a bare field, with a
\* quoted field that is not closed or goes on after its closing quote, and
\* texts of one record of three fields.
IDTexts ==
    { << >>,
      << "n" >>,
      << "d", "|", "s" >>,
      << "d", "|", "s", "|", "n", "|", "x" >>,
      << "d", "|", "s", "|", "n", "\n", "e", "|", "t", "|", "m" >>,
      << "d", "\"", "|", "s", "|", "n" >>,
      << "\"", "d", "|", "s", "|", "n" >>,
      << "\"", "d", "\"", "x", "|", "s", "|", "n" >>,
      << "d", "|", "s", "|", "n" >>,
      << "\"", "d", "|", "1", "\"", "|", "s", "|", "n" >>,
      << "d", "|", "s", "|", "n", "\n" >> }

\* fileFormatIDFromString and the three handlers that decode the ID, on a
\* resource with the ID text `text` and a database that answers every
\* statement.
CallHandlersOnID ==
    /\ fn = "none"
    /\ \E text \in IDTexts, changed \in { {}, {"compression"}, {"comment", "null_if"} } :
          LET d == [ id |-> text, st |-> ZeroState ]
              db == Handle(0, << >>, DescRowsTest, "match")
          IN /\ fn' = "handlers"
             /\ arg' = [ data |-> d, changed |-> changed ]
             /\ res' = [ decoded |-> fileFormatIDFromString(text),
                         ReadFileFormat |-> ReadFileFormat(d, db, << >>, {}),
                         UpdateFileFormat |-> UpdateFileFormat(d, Plan(d, changed), db),
                         DeleteFileFormat |-> DeleteFileFormat(d, db) ]
    /\ UNCHANGED << builderVars, lifecycleVars >>

\* The values given to With<Property> and to Change<Property>: texts with
\* and without the characters EscapeString replaces.
ClauseArgs(p) ==
    IF p \in BoolProps THEN BOOLEAN
    ELSE IF p \in IntProps THEN IntValues
    ELSE IF p \in ListProps THEN NullIfLists
    ELSE { << "x" >>, << "HEX" >>, << "a", "\\", "'", "b" >>, << "a", " ", "b" >> }

\* Create() on a builder given the one property p by With<Property>(x), and
\* Change<Property>(x) on the builder; there is no ChangeType.
CallCreate ==
    /\ fn = "none"
    /\ \E b \in BuildersUnderTest, p \in Props :
          \E x \in ClauseArgs(p) :
             /\ Emits(With(b, p, x), p)
             /\ fn' = "Create"
             /\ arg' = [ b |-> b, p |-> p, x |-> x ]
             /\ res' = [ create |-> Create(With(b, p, x)),
                         change |-> IF p = "type" THEN << >> ELSE Change(b, p, x) ]
    /\ UNCHANGED << builderVars, lifecycleVars >>

\* Components of object names: plain, with a dot, and with double quotes
\* around a dot.
NameComponents ==
    { << "a" >>, << "b" >>, << "a", ".", "b" >>, << "a", "\"", ".", "\"", "b" >> }

\* QualifiedName() on two builders.
CallQualifiedName ==
    /\ fn = "none"
    /\ \E n1 \in NameComponents, d1 \in NameComponents, s1 \in NameComponents,
          n2 \in NameComponents, d2 \in NameComponents, s2 \in NameComponents :
          /\ fn' = "QualifiedName"
          /\ arg' = [ b1 |-> FileFormat(n1, d1, s1), b2 |-> FileFormat(n2, d2, s2) ]
          /\ res' = [ q1 |-> QualifiedName(FileFormat(n1, d1, s1)),
                      q2 |-> QualifiedName(FileFormat(n2, d2, s2)) ]
    /\ UNCHANGED << builderVars, lifecycleVars >>

NextFunctions ==
    \/ CallChange \/ CallDrop \/ CallDescribe \/ CallShow
    \/ CallDescFileFormat \/ CallDescNullIf \/ InsertUnknownRow
    \/ CallIDString \/ CallIDFromString
    \/ CallReadFileFormat \/ CallHandlersOnID \/ CallCreate
    \/ CallQualifiedName

SpecFunctions == Init /\ [][NextFunctions]_vars

InitUnderTest == InitBuilder /\ InitLifecycle /\ InitCalls

SpecBuilder == InitUnderTest /\ [][NextBuilder]_vars

\* ---------------------------------------------------------------- claims

Keywords == { Keyword(p) : p \in Props }

\* The keywords that head a clause `KEYWORD = value` of a statement, in the
\* order of the statement.
ClauseKeywords(s) ==
    LET heads == { i \in 2..(Len(s) - 2) :
                     /\ s[i] \in Keywords
                     /\ s[i - 1] = " " /\ s[i + 1] = " " /\ s[i + 2] = "=" }
        F[i \in 0..Len(s)] ==
            IF i = 0 THEN << >>
            ELSE IF i \in heads THEN Append(F[i - 1], s[i])
            ELSE F[i - 1]
    IN F[Len(s)]

HasClause(s, p) ==
    \E i \in 1..Len(ClauseKeywords(s)) : ClauseKeywords(s)[i] = Keyword(p)

\* The ID text of a database, schema and name without special characters.
PlainID(database, schema, name) ==
    database \o << "|" >> \o schema \o << "|" >> \o name

\* The qualified name of the object a plain ID text names.
PlainQualifiedName(s) ==
    << "\"", s[1], "\"", ".", "\"", s[3], "\"", ".", "\"", s[5], "\"" >>

C2_CreateFailure ==
    (pc = "CreateFileFormat" /\ Len(log) >= 1 /\ ~log[1].ok) =>
        /\ err # NoError
        /\ id = << >>
        /\ writes = << >>
        /\ st = prior.st
        /\ Len(log) = 1
        /\ Verb(log[1].sql) = "CREATE"
        /\ \A i \in 1..Len(log) : Verb(log[i].sql) \notin { "DESCRIBE", "SHOW", "DROP" }

C2_Witness ==
    /\ pc = "CreateFileFormat"
    /\ Len(log) = 1
    /\ ~log[1].ok
    /\ err # NoError
    /\ id = << >>

\* A query of the handler failed: the database returned an error, or the SHOW
\* query returned no row.
QueryFailed ==
    \/ \E i \in 1..Len(log) : ~log[i].ok
    \/ (Len(log) >= 1 /\ Verb(log[Len(log)].sql) = "SHOW" /\ dbh.show = "none")

C4_ReadUnderOrderedExpectations ==
    (pc = "ReadFileFormat" /\ dbh = MockReadHandle) =>
        /\ err = NoError
        /\ Len(log) = 2
        /\ \A i \in 1..Len(log) : log[i].ok
        /\ { log[i].sql : i \in 1..Len(log) } =
              { << "SHOW", " ", "FILE", " ", "FORMATS", " ", "LIKE", " ", "'",
                   prior.id[5], "'", " ", "IN", " ", "DATABASE", " ", "\"",
                   prior.id[1], "\"" >>,
                << "DESCRIBE", " ", "FILE", " ", "FORMAT", " " >>
                    \o PlainQualifiedName(prior.id) }

\* The ALTER statements of the handler, and the properties whose planned
\* value differs from the prior one.
AlterIdx == { i \in 1..Len(log) : Verb(log[i].sql) = "ALTER" }

Planned(p) ==
    IF cfg.opt[p].set THEN cfg.opt[p].v
    ELSE IF p = "comment" THEN << >>
    ELSE prior.st[p]

ChangedProps == { p \in OptProps : Planned(p) # prior.st[p] }

\* C5: in an UpdateFileFormat in which no statement fails, an ALTER statement
\* is sent for a property if and only if its value changed; every ALTER sets
\* exactly one property and no property has two, so there are as many ALTER
\* statements as changed properties.
C5_AlterPerChangedProperty ==
    (pc = "UpdateFileFormat" /\ \A i \in 1..Len(log) : log[i].ok) =>
        LET sets == [ i \in AlterIdx |-> ClauseKeywords(log[i].sql) ]
            changed == ChangedProps
        IN /\ Cardinality(AlterIdx) = Cardinality(changed)
           /\ \A i \in AlterIdx : Len(sets[i]) = 1
           /\ \A p \in OptProps :
                 Cardinality({ i \in AlterIdx : sets[i] = << Keyword(p) >> })
                     = IF p \in changed THEN 1 ELSE 0

C5_Witness ==
    /\ pc = "UpdateFileFormat"
    /\ \A i \in 1..Len(log) : log[i].ok
    /\ Cardinality(ChangedProps) = 2
    /\ Cardinality(AlterIdx) = 2
    /\ cfg.opt["comment"].set
    /\ "comment" \notin ChangedProps

\* C6: DeleteFileFormat sends DROP FILE FORMAT for the qualified name decoded
\* from the resource ID and nothing else; when the statement succeeds the ID
\* is cleared and no error is returned, when it fails the ID is left as it
\* was and an error is returned.
C6_Delete ==
    pc = "DeleteFileFormat" =>
        /\ Len(log) = 1
        /\ log[1].sql = << "DROP", " ", "FILE", " ", "FORMAT", " " >>
                            \o PlainQualifiedName(prior.id)
        /\ (log[1].ok => (id = << >> /\ err = NoError))
        /\ (~log[1].ok => (id = prior.id /\ id # << >> /\ err # NoError))

C6_Witness ==
    /\ pc = "DeleteFileFormat"
    /\ Len(log) = 1
    /\ ~log[1].ok
    /\ id = prior.id
    /\ id # << >>
    /\ err # NoError

\* No With<Property> method has been called on the builder under test.
NoWithCalled == \A p \in Props : ~given[p].set

ClauseOrder ==
    << "type", "comment", "compression", "binary_as_text", "trim_space", "null_if",
       "record_delimiter", "field_delimiter", "file_extension", "skip_header",
       "skip_blank_lines", "date_format", "time_format", "timestamp_format",
       "binary_format", "escape", "escape_unenclosed_field",
       "field_optionally_enclosed_by", "error_on_column_count_mismatch",
       "replace_invalid_characters", "validate_utf8", "empty_field_as_null",
       "skip_byte_order_mark", "encoding" >>

Position(p) == CHOOSE i \in 1..Len(ClauseOrder) : ClauseOrder[i] = p

\* A property is set in the builder once a With call gave it a value; a text
\* or list property given the empty value is as it was made.
IsSet(g, p) ==
    g[p].set /\ (p \in FlagProps \/ g[p].v # << >>)

\* The keywords of the set properties, in the fixed order.
SetKeywords(g) ==
    LET F[i \in 0..Len(ClauseOrder)] ==
            IF i = 0 THEN << >>
            ELSE IF IsSet(g, ClauseOrder[i]) THEN Append(F[i - 1], Keyword(ClauseOrder[i]))
            ELSE F[i - 1]
    IN F[Len(ClauseOrder)]

\* One clause per set property, in the fixed order, whatever the order of
\* the With calls was.
ClausesInOrder == ClauseKeywords(sql) = SetKeywords(given)

\* A With call that sets a property later in the order than all set ones
\* appends exactly one clause to the previous Create() output.
AppendsOneClause ==
    \A p \in Props :
        ( /\ ~IsSet(given, p)
          /\ IsSet(given', p)
          /\ \A q \in Props : IsSet(given, q) => Position(q) < Position(p) )
        =>
        ( /\ Len(sql') > Len(sql)
          /\ SubSeq(sql', 1, Len(sql)) = sql
          /\ ClauseKeywords(sql') = Append(ClauseKeywords(sql), Keyword(p))
          /\ ClauseKeywords(SubSeq(sql', Len(sql) + 1, Len(sql'))) = << Keyword(p) >> )

NameInQuotes(b) ==
    << "\"" >> \o b.db \o << "\"", ".", "\"" >> \o b.schema
        \o << "\"", ".", "\"" >> \o b.name \o << "\"" >>

QuotedElements(L) ==
    LET F[i \in 0..Len(L)] ==
            IF i = 0 THEN << >>
            ELSE F[i - 1] \o (IF i = 1 THEN << >> ELSE << "," >>)
                     \o << "'" >> \o EscapeString(L[i]) \o << "'" >>
    IN F[Len(L)]

\* C12: for every list L, ChangeNullIf(L) returns ALTER FILE FORMAT
\* <qualified-name> SET NULL_IF = ( followed by the elements of L in their
\* order, each escaped and in single quotes, joined by commas without
\* blanks, followed by ); an empty element is written as two single quotes.
C12_ChangeNullIf ==
    (fn = "Change" /\ arg.p = "null_if") =>
        res = << "ALTER", " ", "FILE", " ", "FORMAT", " " >> \o NameInQuotes(arg.b)
                  \o << " ", "SET", " ", "NULL_IF", " ", "=", " ", "(" >>
                  \o QuotedElements(arg.x) \o << ")" >>

C12_Witness ==
    /\ fn = "Change"
    /\ arg.p = "null_if"
    /\ arg.x = << << "\\", "N" >>, << >> >>
    /\ SubSeq(res, Len(res) - 9, Len(res))
           = << "(", "'", "\\", "\\", "N", "'", ",", "'", "'", ")" >>

\* C13: Drop() returns DROP FILE FORMAT <qualified-name>, Describe() returns
\* DESCRIBE FILE FORMAT <qualified-name>, Show() returns SHOW FILE FORMATS
\* LIKE '<name>' IN DATABASE "<db>"; two builders that differ in the schema
\* only return the same Show() statement.
C13_FixedStatements ==
    /\ fn = "Drop" =>
          res = << "DROP", " ", "FILE", " ", "FORMAT", " " >> \o NameInQuotes(arg.b)
    /\ fn = "Describe" =>
          res = << "DESCRIBE", " ", "FILE", " ", "FORMAT", " " >> \o NameInQuotes(arg.b)
    /\ fn = "Show" =>
          /\ res.show = << "SHOW", " ", "FILE", " ", "FORMATS", " ", "LIKE", " ", "'" >>
                            \o arg.b.name
                            \o << "'", " ", "IN", " ", "DATABASE", " ", "\"" >>
                            \o arg.b.db \o << "\"" >>
          /\ res.other = res.show

C13_Witness ==
    /\ fn = "Show"
    /\ arg.schema # arg.b.schema
    /\ res.other = res.show
    /\ Len(res.show) = 19

\* C14: DescFileFormat, given the NULL_IF row of the spec's example, a
\* bracketed, comma-separated list of double-quoted escaped elements
\* (backslash-backslash-N, NULL and the empty string), returns the unquoted,
\* unescaped elements in the same order (backslash-N, NULL, the empty
\* string), no quote character left in any element.
C14_NullIfParsed ==
    (fn = "DescFileFormat" /\ arg.base = DescRowsTest /\ arg.rows = arg.base) =>
        /\ res.now.err = NoError
        /\ res.now.data["null_if"] = << << "\\", "N" >>, << "NULL" >>, << >> >>
        /\ \A i \in 1..Len(res.now.data["null_if"]) :
              \A j \in 1..Len(res.now.data["null_if"][i]) :
                 res.now.data["null_if"][i][j] # "\""

\* C15: the null_if list round-trips: for every list L, DescFileFormat's
\* NULL_IF branch, given the DESCRIBE rendering of L, returns exactly L (the
\* empty list as the absent list).
C15_NullIfRoundTrip ==
    fn = "DescNullIf" =>
        /\ res.err = NoError
        /\ res.data["null_if"] = arg.list

\* C16: DescFileFormat ignores rows whose property it does not model:
\* inserting any number of them at any position of a DESCRIBE result changes
\* neither the record returned nor whether an error is returned, whatever
\* their value column holds.
C16_UnknownRowsIgnored ==
    fn = "DescFileFormat" =>
        /\ res.now.data = res.base.data
        /\ res.now.err = res.base.err

C16_Witness ==
    /\ fn = "DescFileFormat"
    /\ arg.base = DescRowsTest
    /\ Len(arg.rows) = Len(arg.base) + 2
    /\ arg.rows[1] \in UnknownRows
    /\ arg.rows[4] \in UnknownRows
    /\ res.now.err = NoError
    /\ res.now.data["binary_as_text"]

\* C17: the composite ID round-trips: for every triple (database, schema,
\* name), components that are empty, hold the delimiter or a double quote, or
\* start or end with a blank included, fileFormatIDFromString applied to the
\* result of fileFormatID.String() succeeds and returns that triple.
C17_IDRoundTrip ==
    fn = "fileFormatIDFromString" =>
        /\ res.decoded.err = NoError
        /\ res.decoded.id.DatabaseName = arg.database
        /\ res.decoded.id.SchemaName = arg.schema
        /\ res.decoded.id.FileFormatName = arg.name

\* A component holds the delimiter or a double quote.
HoldsSpecial(c) == \E i \in 1..Len(c) : c[i] \in { "|", "\"" }

\* A component in double quotes, its double quotes doubled.
InQuotes(c) ==
    LET F[i \in 0..Len(c)] ==
            IF i = 0 THEN << "\"" >>
            ELSE F[i - 1] \o (IF c[i] = "\"" THEN << "\"", "\"" >> ELSE << c[i] >>)
    IN F[Len(c)] \o << "\"" >>

AsWritten(c) == IF HoldsSpecial(c) THEN InQuotes(c) ELSE c

\* C18: fileFormatID.String() returns <database>|<schema>|<name>, the
\* components verbatim, whenever no component holds '|' or a double quote; a
\* component is quoted only when it holds one of those characters.
C18_IDVerbatim ==
    fn = "fileFormatID.String" =>
        res.string = AsWritten(arg.database) \o << "|" >> \o AsWritten(arg.schema)
                         \o << "|" >> \o AsWritten(arg.name)

\* The place of a property in the fixed order of UpdateFileFormat's blocks,
\* and the property an ALTER statement sets.
UpdatePosition(p) == CHOOSE i \in 1..Len(PropOrder) : PropOrder[i] = p
AlteredProp(s) == CHOOSE p \in OptProps : ClauseKeywords(s) = << Keyword(p) >>

\* C19: when the ALTER statement of a changed property fails,
\* UpdateFileFormat returns an error at once: the failing ALTER is the last
\* statement sent, so no ALTER is sent for a changed property later in the
\* fixed order and no statement undoes the ALTERs already executed; the
\* statements sent are the ALTERs of the changed properties up to the failing
\* one, and the properties marked through SetPartial are exactly the changed
\* properties before the failing one, whose ALTERs succeeded.
C19_FailingAlterAborts ==
    (pc = "UpdateFileFormat" /\ \E i \in AlterIdx : ~log[i].ok) =>
        LET f == CHOOSE i \in AlterIdx : ~log[i].ok
            failed == AlteredProp(log[f].sql)
            changed == ChangedProps
        IN /\ err # NoError
           /\ f = Len(log)
           /\ AlterIdx = 1..Len(log)
           /\ \A i \in 1..(f - 1) : log[i].ok
           /\ \A i \in 1..f : ClauseKeywords(log[i].sql) = << Keyword(AlteredProp(log[i].sql)) >>
           /\ \A i \in 1..(f - 1) :
                 UpdatePosition(AlteredProp(log[i].sql)) < UpdatePosition(AlteredProp(log[i + 1].sql))
           /\ { AlteredProp(log[i].sql) : i \in 1..f }
                 = { p \in changed : UpdatePosition(p) <= UpdatePosition(failed) }
           /\ partial = { p \in changed : UpdatePosition(p) < UpdatePosition(failed) }

C19_Witness ==
    /\ pc = "UpdateFileFormat"
    /\ Len(log) = 2
    /\ log[1].ok
    /\ ~log[2].ok
    /\ Verb(log[2].sql) = "ALTER"
    /\ Cardinality(partial) = 1
    /\ err # NoError

\* C20: UpdateFileFormat performs a full Read after its ALTER statements,
\* both when every changed property was applied and when the first failing
\* ALTER aborted the blocks: the statement after the last ALTER is the
\* DESCRIBE query, and the SHOW query follows a DESCRIBE that succeeded.
C20_ReadAfterAlters ==
    pc = "UpdateFileFormat" =>
        LET n == Cardinality(AlterIdx)
        IN /\ AlterIdx = 1..n
           /\ Len(log) > n
           /\ Verb(log[n + 1].sql) = "DESCRIBE"
           /\ ((log[n + 1].ok /\ dbh.desc # DescRowsBad) =>
                 (Len(log) = n + 2 /\ Verb(log[n + 2].sql) = "SHOW"))

\* C9: the CREATE statement sent by CreateFileFormat has a clause for a
\* boolean or integer property if and only if the configuration provides that
\* property, the zero value (false, 0) included.
C9_ClauseIffProvided ==
    (pc = "CreateFileFormat" /\ Len(log) >= 1) =>
        \A p \in FlagProps : HasClause(log[1].sql, p) <=> cfg.opt[p].set

\* C10: CreateFileFormat with only name, database, schema, type and comment
\* configured sends as its first statement exactly CREATE FILE FORMAT
\* "<db>"."<schema>"."<name>" TYPE = "<type>" COMMENT = "<comment>"
\* BINARY_AS_TEXT = true TRIM_SPACE = false.
C10_CreateOfTypeAndComment ==
    ( /\ pc = "CreateFileFormat"
      /\ Len(log) >= 1
      /\ { p \in OptProps : cfg.opt[p].set } = { "comment" }
      /\ cfg.opt["comment"].v = << "x" >> )
    =>
    log[1].sql =
        << "CREATE", " ", "FILE", " ", "FORMAT", " ", "\"" >> \o cfg.database
            \o << "\"", ".", "\"" >> \o cfg.schema
            \o << "\"", ".", "\"" >> \o cfg.name
            \o << "\"", " ", "TYPE", " ", "=", " ", "\"" >> \o cfg.opt["type"].v
            \o << "\"", " ", "COMMENT", " ", "=", " ", "\"", "x", "\"",
                  " ", "BINARY_AS_TEXT", " ", "=", " ", "true",
                  " ", "TRIM_SPACE", " ", "=", " ", "false" >>

\* Value texts that are no boolean, and value texts that are no integer.
NoBoolTexts == { << "yes" >>, << "maybe" >>, << "tRuE" >>, << "2" >>, << >> }
NoIntTexts == { << >>, << "many" >>, << "1", ".", "5" >>, << "1", "x" >> }

Unparsable(row) ==
    \/ (row.property_type = "Boolean" /\ row.property_value \in NoBoolTexts)
    \/ (row.property_type = "Integer" /\ row.property_value \in NoIntTexts)

\* C21: when a DESCRIBE row carries an unparsable boolean value, or an
\* unparsable integer for skip_header, DescFileFormat returns an error and
\* the empty record, whatever rows were parsed before it, and ReadFileFormat
\* returns that error after the DESCRIBE query alone, having written no
\* property to the resource state.
C21_ParseFailureAbortsRead ==
    (fn = "ReadFileFormat" /\ Unparsable(arg.row)) =>
        /\ res.desc.err # NoError
        /\ res.desc.data = ZeroData
        /\ res.read.err = res.desc.err
        /\ res.read.writes = << >>
        /\ res.read.st = arg.data.st
        /\ res.read.id = arg.data.id
        /\ Len(res.read.log) = 1
        /\ Verb(res.read.log[1].sql) = "DESCRIBE"

C21_Witness ==
    /\ fn = "ReadFileFormat"
    /\ arg.row = Row("SKIP_HEADER", "Integer", << "many" >>, << "0" >>)
    /\ arg.at = 4
    /\ arg.rows[1].property_value = << "csv" >>
    /\ arg.rows[3].property_value = << "1", "2" >>
    /\ res.desc.err # NoError
    /\ res.desc.data["type"] = << >>
    /\ res.read.err # NoError

\* The texts strconv.ParseBool reads as true and as false.
TrueTexts == { << "1" >>, << "t" >>, << "T" >>, << "TRUE" >>, << "true" >>, << "True" >> }
FalseTexts == { << "0" >>, << "f" >>, << "F" >>, << "FALSE" >>, << "false" >>, << "False" >> }

\* C23 as stated: for a boolean row of DESCRIBE, DescFileFormat accepts
\* exactly the texts true and false, case-sensitively; any other value text
\* (TRUE, True, 1, t) makes the read return an error.
C23_OnlyTrueAndFalse ==
    (fn = "ReadFileFormat" /\ arg.row.property_type = "Boolean") =>
        /\ (res.desc.err = NoError <=> arg.row.property_value \in { << "true" >>, << "false" >> })
        /\ (res.read.err = NoError <=> arg.row.property_value \in { << "true" >>, << "false" >> })

\* C23, amended: for a boolean row of DESCRIBE, DescFileFormat accepts
\* exactly the texts of strconv.ParseBool: 1, t, T, TRUE, true, True for true
\* and 0, f, F, FALSE, false, False for false; the row that comes last sets
\* its property to that value, and any other value text makes the read
\* return an error.
C23_ParseBoolTexts ==
    (fn = "ReadFileFormat" /\ arg.row.property_type = "Boolean") =>
        LET x == arg.row.property_value
            p == CHOOSE q \in BoolProps : Keyword(q) = arg.row.property
        IN /\ (res.desc.err = NoError <=> x \in TrueTexts \cup FalseTexts)
           /\ (res.read.err = NoError <=> x \in TrueTexts \cup FalseTexts)
           /\ ((x \in TrueTexts \cup FalseTexts /\ arg.at = Len(arg.rows)) =>
                 /\ res.desc.data[p] = (x \in TrueTexts)
                 /\ res.read.st[p] = (x \in TrueTexts))

C23_Witness ==
    /\ fn = "ReadFileFormat"
    /\ arg.row = Row("BINARY_AS_TEXT", "Boolean", << "F" >>, << "false" >>)
    /\ arg.at = Len(arg.rows)
    /\ arg.rows[Len(arg.rows) - 1] = Row("BINARY_AS_TEXT", "Boolean", << "true" >>, << "true" >>)
    /\ res.desc.err = NoError
    /\ res.read.err = NoError
    /\ ~res.read.st["binary_as_text"]

\* ID texts that are not one record of three fields in well-formed quoting.
MalformedIDs ==
    { << >>,
      << "n" >>,
      << "d", "|", "s" >>,
      << "d", "|", "s", "|", "n", "|", "x" >>,
      << "d", "|", "s", "|", "n", "\n", "e", "|", "t", "|", "m" >>,
      << "d", "\"", "|", "s", "|", "n" >>,
      << "\"", "d", "|", "s", "|", "n" >>,
      << "\"", "d", "\"", "x", "|", "s", "|", "n" >> }

\* C22: for a resource ID that does not decode to exactly one record of
\* exactly three fields, or that is not well-formed quoted text,
\* fileFormatIDFromString returns an error, and ReadFileFormat,
\* UpdateFileFormat and DeleteFileFormat each return that error, having sent
\* no SQL statement and left the resource ID and state as they were.
C22_MalformedID ==
    (fn = "handlers" /\ arg.data.id \in MalformedIDs) =>
        /\ res.decoded.err # NoError
        /\ \A h \in { "ReadFileFormat", "UpdateFileFormat", "DeleteFileFormat" } :
              /\ res[h].err = res.decoded.err
              /\ res[h].log = << >>
              /\ res[h].id = arg.data.id
              /\ res[h].st = arg.data.st
              /\ res[h].writes = << >>

C22_Witness ==
    /\ fn = "handlers"
    /\ arg.data.id = << "d", "|", "s", "|", "n", "\n", "e", "|", "t", "|", "m" >>
    /\ arg.changed = {"compression"}
    /\ res.decoded.err = << "1 line per file format" >>
    /\ res["UpdateFileFormat"].err = res.decoded.err
    /\ res["UpdateFileFormat"].log = << >>

\* C24: in the statement Create() returns, every string-valued property is
\* written as <PROPERTY> = "<v>", v the escaped value in double quotes; only
\* the boolean and the integer properties are written as bare literals.
C24_StringClausesQuoted ==
    (fn = "Create" /\ arg.p \notin ListProps) =>
        res.create =
            << "CREATE", " ", "FILE", " ", "FORMAT", " " >> \o NameInQuotes(arg.b)
                \o << " ", Keyword(arg.p), " ", "=", " " >>
                \o (IF arg.p \in BoolProps THEN (IF arg.x THEN << "true" >> ELSE << "false" >>)
                    ELSE IF arg.p \in IntProps THEN (IF arg.x = 0 THEN << "0" >> ELSE << "1" >>)
                    ELSE << "\"" >> \o EscapeString(arg.x) \o << "\"" >>)

\* The text that follows `<PROPERTY> = ` in a statement.
ValueText(s, p) ==
    LET heads == { i \in 3..(Len(s) - 1) :
                     s[i - 2] = Keyword(p) /\ s[i - 1] = " " /\ s[i] = "=" /\ s[i + 1] = " " }
        head == CHOOSE i \in heads : \A j \in heads : i <= j
    IN SubSeq(s, head + 2, Len(s))

WrappedFor(e, operations, target) ==
    LET n == Len(e) - Len(SqlError) - 2
    IN /\ n >= 2 + Len(target)
       /\ SubSeq(e, n + 1, Len(e)) = << ":", " " >> \o SqlError
       /\ e[1] \in operations
       /\ SubSeq(e, n - Len(target) + 1, n) = target

\* C25: every error a lifecycle operation returns because a SQL statement
\* or query failed is wrapped in a message that names the operation and the
\* target object: for the CREATE, ALTER and DROP statements and equally for
\* the DESCRIBE and SHOW queries of ReadFileFormat.
C25_SqlErrorsWrapped ==
    (pc # "idle" /\ \E i \in 1..Len(log) : ~log[i].ok) =>
        LET failed == Verb(log[Len(log)].sql)
        IN CASE failed = "CREATE" ->
                   WrappedFor(err, { "error creating file format" }, cfg.name)
             [] failed = "ALTER" ->
                   WrappedFor(err, { "error updating file format" }, prior.id)
             [] failed = "DROP" ->
                   WrappedFor(err, { "error deleting file format" }, prior.id)
             [] OTHER ->
                   \/ WrappedFor(err, { "error reading file format" }, id)
                   \/ WrappedFor(err, { "error reading file format" },
                                 fileFormatIDFromString(id).id.FileFormatName)

\* A step leaves the resource ID as it is, unless it is a CreateFileFormat
\* whose CREATE statement succeeded, which sets the ID of a resource that had
\* none to the encoding of the configured database, schema and name, or a
\* DeleteFileFormat that succeeded, which sets it to empty.
IDStep ==
    /\ (pc' \in { "ReadFileFormat", "UpdateFileFormat" } => id' = id)
    /\ (id' # id =>
          \/ /\ pc' = "CreateFileFormat"
             /\ id = << >>
             /\ log'[1].ok
             /\ id' = PlainID(cfg'.database, cfg'.schema, cfg'.name)
          \/ /\ pc' = "DeleteFileFormat"
             /\ err' = NoError
             /\ log'[Len(log')].ok
             /\ id' = << >>)

\* C26: in every sequence of lifecycle operations on a resource, the ID set
\* by CreateFileFormat, the encoding of the database, schema and name of the
\* creation, stays as it is through every later ReadFileFormat and
\* UpdateFileFormat, whether they succeed or fail and whatever rows the
\* database returns; only a DeleteFileFormat that succeeds changes it, to
\* empty.
C26_IDStable == [][IDStep]_vars

C26_Witness ==
    /\ pc = "ReadFileFormat"
    /\ err = NoError
    /\ dbh.show = "other_schema"
    /\ st["schema"] = << "other" >>
    /\ id = prior.id
    /\ id = << "d", "|", "s", "|", "n" >>

\* C27: after every successful ReadFileFormat the name, database and schema
\* in the resource state are the three components decoded from the resource
\* ID, for every row the warehouse may return to the SHOW query, which
\* filters by name and database but not by schema.
C27_StateNamesTheID ==
    (pc = "ReadFileFormat" /\ err = NoError) =>
        /\ Len(id) = 5
        /\ st["database"] = << id[1] >>
        /\ st["schema"] = << id[3] >>
        /\ st["name"] = << id[5] >>

\* C28: when the CREATE statement succeeds and the Read that follows fails,
\* on a DESCRIBE or SHOW error or on a parse failure, CreateFileFormat
\* returns an error with the resource ID set to the encoding of the new
\* object, and sends no DROP; the ID is non-empty exactly when the CREATE
\* statement succeeded.
C28_IDSetOnceCreated ==
    (pc = "CreateFileFormat" /\ Len(log) >= 1) =>
        /\ (id # << >> <=> log[1].ok)
        /\ \A i \in 1..Len(log) : Verb(log[i].sql) # "DROP"
        /\ ((log[1].ok /\ QueryFailed) => err # NoError)
        /\ ((log[1].ok /\ dbh.desc = DescRowsBad) => err # NoError)
        /\ (log[1].ok => id = PlainID(cfg.database, cfg.schema, cfg.name))

C28_Witness ==
    /\ pc = "CreateFileFormat"
    /\ Len(log) = 2
    /\ log[1].ok /\ log[2].ok
    /\ dbh.desc = DescRowsBad
    /\ err # NoError
    /\ id = << "d", "|", "s", "|", "n" >>

\* C30: QualifiedName is injective: two builders of different (database,
\* schema, name) triples never return the same qualified name, also when a
\* component holds a double quote or a dot.
C30_QualifiedNameInjective ==
    fn = "QualifiedName" =>
        ( ( \/ arg.b1.db # arg.b2.db
            \/ arg.b1.schema # arg.b2.schema
            \/ arg.b1.name # arg.b2.name )
          => res.q1 # res.q2 )

====
